---- MODULE Spec2Model ----
(***************************************************************************)
(* Model of the earnings projection of src/payments_app.py:                *)
(*   is_active_by_lifetime, survival_factor, per_client_payment,          *)
(*   build_monthly_dataframe (one action per iteration of its month loop)  *)
(*   and yearly_totals.                                                    *)
(*                                                                         *)
(* Python floats are modelled as exact rationals <<n, d>> (d > 0, lowest   *)
(* terms); integer inputs stay integers.                                   *)
(***************************************************************************)
EXTENDS Integers, Sequences, FiniteSets

VARIABLES params, m, cohorts, signed_cum, rows, scan, pc, yearly

vars == <<params, m, cohorts, signed_cum, rows, scan, pc, yearly>>

\* ---------------------------------------------------------------- bounds

MaxMonths == 4
MaxClients == 2
MaxFree == 1
MaxLifetime == 2
MaxDuration == 2

\* The number of months of one year in yearly_totals.
YearLen == 12

\* ------------------------------------------------------------- rationals

RECURSIVE GCD(_, _)
GCD(a, b) == IF b = 0 THEN a ELSE GCD(b, a % b)

Abs(x) == IF x < 0 THEN -x ELSE x

\* n/d in lowest terms with a positive denominator.
Rat(n, d) ==
    LET s == IF d < 0 THEN -1 ELSE 1
        g == GCD(Abs(n), Abs(d))
    IN  <<(s * n) \div g, (s * d) \div g>>

Zero == <<0, 1>>
One == <<1, 1>>
RInt(i) == <<i, 1>>

RAdd(x, y) ==
    LET g == GCD(x[2], y[2])
    IN  Rat(x[1] * (y[2] \div g) + y[1] * (x[2] \div g), (x[2] \div g) * y[2])

RSub(x, y) == RAdd(x, <<-y[1], y[2]>>)

RMul(x, y) ==
    LET g1 == GCD(Abs(x[1]), y[2])
        g2 == GCD(Abs(y[1]), x[2])
    IN  Rat((x[1] \div g1) * (y[1] \div g2), (x[2] \div g2) * (y[2] \div g1))

RLt(x, y) ==
    LET g == GCD(x[2], y[2])
    IN  x[1] * (y[2] \div g) < y[1] * (x[2] \div g)

RLe(x, y) == x = y \/ RLt(x, y)

RMin(x, y) == IF RLt(y, x) THEN y ELSE x
RMax(x, y) == IF RLt(x, y) THEN y ELSE x

RECURSIVE RPow(_, _)
RPow(x, k) == IF k <= 0 THEN One ELSE RMul(x, RPow(x, k - 1))

\* Left-to-right sum of a sequence of rationals, from 0.0.
RECURSIVE RSumTo(_, _)
RSumTo(s, n) == IF n = 0 THEN Zero ELSE RAdd(RSumTo(s, n - 1), s[n])

RSum(s) == RSumTo(s, Len(s))

\* ------------------------------------------------ lifetime, churn, price

\* Mutant: the limit month itself still counts as inside the lifetime.
is_active_by_lifetime_inclusive(age_from_activation, age_from_first_payment, lifetime_months, lifetime_mode) ==
    IF lifetime_months <= 0 THEN TRUE
    ELSE IF lifetime_mode = "From activation"
         THEN age_from_activation <= lifetime_months
         ELSE age_from_first_payment <= lifetime_months

is_active_by_lifetime(age_from_activation, age_from_first_payment, lifetime_months, lifetime_mode) ==
    IF lifetime_months <= 0 THEN TRUE
    ELSE IF lifetime_mode = "From activation"
         THEN age_from_activation < lifetime_months
         ELSE age_from_first_payment < lifetime_months

survival_factor(churn_rate, churn_age) ==
    IF RLe(churn_rate, Zero) \/ churn_age <= 0 THEN One
    ELSE RPow(RSub(One, churn_rate), churn_age)

\* Mutant: the free period ends one month early.
per_client_payment_short_free(contract_type, age_from_activation, free_months, intro_months, intro_amount, recurring_amount, flat_amount) ==
    IF age_from_activation < free_months - 1 THEN 0
    ELSE LET eff_age == age_from_activation - free_months
         IN  IF contract_type = "Intro + Recurring"
             THEN IF eff_age < intro_months THEN intro_amount ELSE recurring_amount
             ELSE flat_amount

per_client_payment(contract_type, age_from_activation, free_months, intro_months, intro_amount, recurring_amount, flat_amount) ==
    IF age_from_activation < free_months THEN 0
    ELSE LET eff_age == age_from_activation - free_months
         IN  IF contract_type = "Intro + Recurring"
             THEN IF eff_age < intro_months THEN intro_amount ELSE recurring_amount
             ELSE flat_amount

\* ------------------------------------------------------ the month's locals

\* Mutant: the churn rate is clamped into [0, 1] instead of [0, 0.99].
churn_rate_clamp_one(p) == RMax(RMin(Rat(p.churn_percent, 100), One), Zero)

churn_rate(p) == RMax(RMin(Rat(p.churn_percent, 100), Rat(99, 100)), Zero)

include_bonus(p) ==
    p.payout_policy \in {"Bonus only (no recurring)", "Bonus + Recurring"}

include_recurring(p) ==
    p.payout_policy \in {"Bonus + Recurring", "Recurring only (no bonus)"}

bonus_is_commissionable(p) == p.payout_type = "Commissionable (x%)"

\* Mutant: the override applies from its month on.
new_clients_from_override_on(p, mm) ==
    IF p.override_month <= mm /\ p.override_month > 0
    THEN p.override_new_clients
    ELSE p.default_new_clients

new_clients_this_month(p, mm) ==
    IF p.override_month = mm /\ p.override_month > 0
    THEN p.override_new_clients
    ELSE p.default_new_clients

\* Mutant: the Fixed-mode difference is not clamped at 0.
net_size_unclamped(p, new_clients) ==
    IF p.cancellations_mode = "Fixed"
    THEN new_clients - p.cancellations
    ELSE new_clients

net_size(p, new_clients) ==
    IF p.cancellations_mode = "Fixed"
    THEN IF new_clients - p.cancellations > 0
         THEN new_clients - p.cancellations ELSE 0
    ELSE new_clients

\* Mutant: the distance to the end of the free period instead of the clamp.
age_from_first_payment_abs(p, age_from_activation) ==
    Abs(age_from_activation - p.free_months)

age_from_first_payment(p, age_from_activation) ==
    IF age_from_activation - p.free_months > 0
    THEN age_from_activation - p.free_months ELSE 0

churn_age(p, age_from_activation) ==
    IF p.lifetime_mode = "From activation"
    THEN age_from_activation
    ELSE age_from_first_payment(p, age_from_activation)

cohort_sf(p, age_from_activation) ==
    IF p.cancellations_mode = "Churn"
    THEN survival_factor(churn_rate(p), churn_age(p, age_from_activation))
    ELSE One

\* One iteration of the loop over the cohorts in month mm: the locals it
\* computes and where it ended ("unborn" and "lifetime" are the two
\* continue statements, "price" a price of 0, "paid" an accumulation).
ScanCohort(p, c, mm) ==
    LET age == mm - c.birth
        afp == age_from_first_payment(p, age)
        active == is_active_by_lifetime(age, afp, p.lifetime_months, p.lifetime_mode)
        sf == cohort_sf(p, age)
        price == per_client_payment(p.contract_type, age, p.free_months,
                                    p.intro_months, p.intro_amount,
                                    p.recurring_amount, p.flat_amount)
        none == [birth |-> c.birth, size |-> c.size, age |-> age, afp |-> afp,
                 ended |-> "unborn", sf |-> Zero, per_client_gross |-> 0,
                 active_clients |-> Zero, gross |-> Zero]
    IN  IF age < 0 THEN [none EXCEPT !.afp = 0]
        ELSE IF ~active THEN [none EXCEPT !.ended = "lifetime"]
        ELSE IF ~(price > 0)
             THEN [none EXCEPT !.ended = "price", !.sf = sf]
        ELSE [none EXCEPT !.ended = "paid", !.sf = sf,
                          !.per_client_gross = price,
                          !.active_clients = RMul(RInt(c.size), sf),
                          !.gross = RMul(RInt(price), RMul(RInt(c.size), sf))]

ScanAll(p, cs, mm) ==
    IF include_recurring(p)
    THEN [i \in 1..Len(cs) |-> ScanCohort(p, cs[i], mm)]
    ELSE << >>

paying_clients_this_month(sc) ==
    RSum([i \in 1..Len(sc) |-> sc[i].active_clients])

gross_client_payments(sc) ==
    RSum([i \in 1..Len(sc) |-> sc[i].gross])

commission_from_clients(p, gross) ==
    IF include_recurring(p) THEN RMul(gross, p.commission_rate) ELSE Zero

\* Mutant: the bonus is paid under every policy.
bonus_raw_any_policy(p, mm, new_clients) ==
    IF p.use_new_sale_bonus
       /\ p.payout_duration > 0 /\ mm <= p.payout_duration
    THEN RInt(p.new_sale_payout * new_clients)
    ELSE Zero

\* Mutant: the bonus is paid in every month once payout_duration > 0.
bonus_raw_no_deadline(p, mm, new_clients) ==
    IF include_bonus(p) /\ p.use_new_sale_bonus /\ p.payout_duration > 0
    THEN RInt(p.new_sale_payout * new_clients)
    ELSE Zero

bonus_raw(p, mm, new_clients) ==
    IF include_bonus(p) /\ p.use_new_sale_bonus
       /\ p.payout_duration > 0 /\ mm <= p.payout_duration
    THEN RInt(p.new_sale_payout * new_clients)
    ELSE Zero

bonus_to_agent(p, braw) ==
    IF bonus_is_commissionable(p) THEN RMul(braw, p.commission_rate) ELSE braw

total(p, bonus, commission) ==
    IF p.payout_policy = "Bonus only (no recurring)" THEN bonus
    ELSE IF p.payout_policy = "Recurring only (no bonus)" THEN commission
    ELSE RAdd(bonus, commission)

\* Mutant: a cohort is kept only when it has clients.
append_cohort_nonempty(cs, mm, net) ==
    IF net > 0 THEN Append(cs, [birth |-> mm, size |-> net]) ELSE cs

append_cohort(cs, mm, net) == Append(cs, [birth |-> mm, size |-> net])

\* The row appended for month mm, given the cohorts (the new one included).
MonthRow(p, mm, cs, cum) ==
    LET nc == new_clients_this_month(p, mm)
        sc == ScanAll(p, cs, mm)
        gross == gross_client_payments(sc)
        comm == commission_from_clients(p, gross)
        bonus == bonus_to_agent(p, bonus_raw(p, mm, nc))
    IN  [Month |-> mm,
         NewClients |-> nc,
         Cancellations |-> IF p.cancellations_mode = "Fixed"
                           THEN p.cancellations ELSE "-",
         Mode |-> p.cancellations_mode,
         NetActivations |-> net_size(p, nc),
         SignedCum |-> cum,
         Paying |-> paying_clients_this_month(sc),
         Gross |-> gross,
         NewSaleIncome |-> bonus,
         Commission |-> comm,
         Total |-> total(p, bonus, comm)]

\* ---------------------------------------------------------- yearly_totals

\* Mutant: the year is counted from month 0.
Year_from_zero(month) == month \div YearLen + 1

Year(month) == (month - 1) \div YearLen + 1

YearsOf(rs) == {Year(rs[i].Month) : i \in 1..Len(rs)}

RECURSIVE SortedSeq(_)
SortedSeq(S) ==
    IF S = {} THEN << >>
    ELSE LET lo == CHOOSE x \in S : \A y \in S : x <= y
         IN  <<lo>> \o SortedSeq(S \ {lo})

\* The sum of one column over the rows of one group, in row order.
RECURSIVE GroupSum(_, _, _, _)
GroupSum(rs, n, y, col) ==
    IF n = 0 THEN Zero
    ELSE IF Year(rs[n].Month) = y
         THEN RAdd(GroupSum(rs, n - 1, y, col), rs[n][col])
         ELSE GroupSum(rs, n - 1, y, col)

yearly_totals(rs) ==
    LET ys == SortedSeq(YearsOf(rs))
    IN  [k \in 1..Len(ys) |->
            [Year |-> ys[k],
             Gross |-> GroupSum(rs, Len(rs), ys[k], "Gross"),
             NewSaleIncome |-> GroupSum(rs, Len(rs), ys[k], "NewSaleIncome"),
             Commission |-> GroupSum(rs, Len(rs), ys[k], "Commission"),
             TotalYearly |-> GroupSum(rs, Len(rs), ys[k], "Total")]]

\* ------------------------------------------------------------- parameters

Policies == {"Bonus only (no recurring)", "Bonus + Recurring",
             "Recurring only (no bonus)"}
PayoutTypes == {"Commissionable (x%)", "Flat (direct)"}
ContractTypes == {"Intro + Recurring", "Flat Monthly"}
LifetimeModes == {"From activation", "After free months"}

\* Runs that vary what the recurring part reads.
RecurringRuns ==
    [months : 1..MaxMonths,
     default_new_clients : {1, MaxClients},
     override_month : {0, 2},
     override_new_clients : {0},
     cancellations_mode : {"Fixed", "Churn"},
     cancellations : {0, 1},
     churn_percent : {0, 50},
     commission_rate : {Rat(1, 2)},
     payout_policy : {"Bonus + Recurring", "Recurring only (no bonus)"},
     payout_type : {"Commissionable (x%)"},
     use_new_sale_bonus : {TRUE},
     new_sale_payout : {160},
     payout_duration : {1},
     contract_type : ContractTypes,
     free_months : 0..MaxFree,
     intro_months : {0, 1},
     intro_amount : {0, 3},
     recurring_amount : {2},
     flat_amount : {1},
     lifetime_months : 0..MaxLifetime,
     lifetime_mode : LifetimeModes]

\* Runs that vary what the bonus and the total read.
BonusRuns ==
    [months : 1..MaxMonths,
     default_new_clients : 0..MaxClients,
     override_month : 0..2,
     override_new_clients : {0, 3},
     cancellations_mode : {"Fixed"},
     cancellations : {0, 1},
     churn_percent : {0},
     commission_rate : {Zero, Rat(1, 2), One},
     payout_policy : Policies,
     payout_type : PayoutTypes,
     use_new_sale_bonus : BOOLEAN,
     new_sale_payout : {0, 160},
     payout_duration : 0..MaxDuration,
     contract_type : {"Flat Monthly"},
     free_months : {0},
     intro_months : {0},
     intro_amount : {0},
     recurring_amount : {0},
     flat_amount : {100},
     lifetime_months : {0},
     lifetime_mode : {"From activation"}]

\* Three months of churn at percentages on and beyond both ends of the clamp.
ClampRuns ==
    [months : {3},
     default_new_clients : {1, 2},
     override_month : {0},
     override_new_clients : {0},
     cancellations_mode : {"Churn"},
     cancellations : {0, 1},
     churn_percent : {-20, 99, 100, 130},
     commission_rate : {Rat(1, 2)},
     payout_policy : {"Bonus + Recurring", "Recurring only (no bonus)"},
     payout_type : {"Commissionable (x%)"},
     use_new_sale_bonus : {TRUE},
     new_sale_payout : {160},
     payout_duration : {1},
     contract_type : ContractTypes,
     free_months : {0, 1},
     intro_months : {1},
     intro_amount : {3},
     recurring_amount : {2},
     flat_amount : {1},
     lifetime_months : {0, 2},
     lifetime_mode : LifetimeModes]

\* Runs over more than one year, for yearly_totals.
YearRuns ==
    [months : {YearLen - 1, YearLen, YearLen + 1, 2 * YearLen, 2 * YearLen + 1},
     default_new_clients : {10},
     override_month : {0, 3},
     override_new_clients : {50},
     cancellations_mode : {"Fixed"},
     cancellations : {0, 2},
     churn_percent : {0},
     commission_rate : {Rat(1, 2), One},
     payout_policy : Policies,
     payout_type : {"Commissionable (x%)"},
     use_new_sale_bonus : {TRUE},
     new_sale_payout : {160},
     payout_duration : {1, YearLen + 1},
     contract_type : ContractTypes,
     free_months : {0, 1},
     intro_months : {3},
     intro_amount : {300},
     recurring_amount : {150},
     flat_amount : {100},
     lifetime_months : {0, YearLen},
     lifetime_mode : LifetimeModes]

\* A year and a month of churn at 50%.
ChurnYearRuns ==
    [months : {YearLen + 1},
     default_new_clients : {1},
     override_month : {0},
     override_new_clients : {0},
     cancellations_mode : {"Churn"},
     cancellations : {0},
     churn_percent : {50},
     commission_rate : {Rat(1, 2)},
     payout_policy : {"Bonus + Recurring"},
     payout_type : PayoutTypes,
     use_new_sale_bonus : {TRUE},
     new_sale_payout : {160},
     payout_duration : {1},
     contract_type : {"Flat Monthly"},
     free_months : {0, 1},
     intro_months : {0},
     intro_amount : {0},
     recurring_amount : {0},
     flat_amount : {100},
     lifetime_months : {0},
     lifetime_mode : LifetimeModes]

\* The bonus scenario: 12 new clients a month, bonus 160 for one month,
\* commission 50%, three months.
BonusScenario ==
    [months |-> 3, default_new_clients |-> 12,
     override_month |-> 0, override_new_clients |-> 0,
     cancellations_mode |-> "Fixed", cancellations |-> 2, churn_percent |-> 0,
     commission_rate |-> Rat(1, 2),
     payout_policy |-> "Bonus only (no recurring)",
     payout_type |-> "Commissionable (x%)",
     use_new_sale_bonus |-> TRUE, new_sale_payout |-> 160, payout_duration |-> 1,
     contract_type |-> "Flat Monthly", free_months |-> 0, intro_months |-> 0,
     intro_amount |-> 0, recurring_amount |-> 0, flat_amount |-> 100,
     lifetime_months |-> 0, lifetime_mode |-> "From activation"]

\* The override scenario: twelve months, 10 new clients a month, 50 in
\* month 3, flat 100, commission 100%, recurring only.
OverrideScenario ==
    [BonusScenario EXCEPT !.months = YearLen, !.default_new_clients = 10,
                          !.override_month = 3, !.override_new_clients = 50,
                          !.cancellations = 0, !.commission_rate = One,
                          !.payout_policy = "Recurring only (no bonus)"]

ParamSpace ==
    RecurringRuns \cup BonusRuns \cup ClampRuns \cup YearRuns \cup ChurnYearRuns
        \cup {BonusScenario, OverrideScenario}

\* ---------------------------------------------------------------- actions

Init ==
    /\ params \in ParamSpace
    /\ m = 0
    /\ cohorts = << >>
    /\ signed_cum = 0
    /\ rows = << >>
    /\ scan = << >>
    /\ pc = "loop"
    /\ yearly = << >>

\* One iteration of "for m in range(1, months + 1)".
MonthStep ==
    /\ pc = "loop"
    /\ m < params.months
    /\ LET mm == m + 1
           nc == new_clients_this_month(params, mm)
           net == net_size(params, nc)
           cs == append_cohort(cohorts, mm, net)
           cum == signed_cum + net
       IN  /\ m' = mm
           /\ cohorts' = cs
           /\ signed_cum' = cum
           /\ scan' = ScanAll(params, cs, mm)
           /\ rows' = Append(rows, MonthRow(params, mm, cs, cum))
    /\ UNCHANGED <<params, pc, yearly>>

\* The loop is over: return pd.DataFrame(rows).
Return ==
    /\ pc = "loop"
    /\ m >= params.months
    /\ pc' = "returned"
    /\ UNCHANGED <<params, m, cohorts, signed_cum, rows, scan, yearly>>

\* yearly_totals(df) on the returned frame.
YearlyTotals ==
    /\ pc = "returned"
    /\ yearly' = yearly_totals(rows)
    /\ pc' = "aggregated"
    /\ UNCHANGED <<params, m, cohorts, signed_cum, rows, scan>>

Next == MonthStep \/ Return \/ YearlyTotals

Spec == Init /\ [][Next]_vars

\* ------------------------------------------------------------------ claims

Rows == 1..Len(rows)

\* The new-client count the parameters give month i.
ExpectedNew(i) ==
    IF params.override_month > 0 /\ i = params.override_month
    THEN params.override_new_clients
    ELSE params.default_new_clients

Max0(x) == IF x > 0 THEN x ELSE 0

RECURSIVE NetSum(_)
NetSum(n) == IF n = 0 THEN 0 ELSE NetSum(n - 1) + rows[n].NetActivations

\* C1: the total is made only of the policy's components. Under "Recurring
\* only" New Sale Income is 0 and the total is the commission; under "Bonus
\* only" the commission, the gross payments and the paying clients are 0 and
\* the total is the new-sale income; under "Bonus + Recurring" the total is
\* the sum of the two.
C1_PolicyPartition ==
    \A i \in Rows :
        LET r == rows[i]
        IN  /\ params.payout_policy = "Recurring only (no bonus)"
                => r.NewSaleIncome = Zero /\ r.Total = r.Commission
            /\ params.payout_policy = "Bonus only (no recurring)"
                => /\ r.Commission = Zero /\ r.Gross = Zero /\ r.Paying = Zero
                   /\ r.Total = r.NewSaleIncome
            /\ params.payout_policy = "Bonus + Recurring"
                => r.Total = RAdd(r.NewSaleIncome, r.Commission)

\* A finished "Bonus + Recurring" run with a month whose two components are
\* both non-zero, so that the total is a real sum.
C1_Witness ==
    /\ pc = "returned"
    /\ params.payout_policy = "Bonus + Recurring"
    /\ \E i \in Rows :
        /\ rows[i].NewSaleIncome # Zero /\ rows[i].Commission # Zero
        /\ rows[i].Total # rows[i].NewSaleIncome
        /\ rows[i].Total # rows[i].Commission

\* C2: the bonus is gated by the simulation month only. In month i the
\* new-sale income is bonus x this month's new clients (before cancellations,
\* override applied), times the commission rate iff the payout type is
\* Commissionable, when the policy includes the bonus, the bonus is in use,
\* payout_duration > 0 and i <= payout_duration; it is 0 in every other
\* month. In the bonus scenario month 1 totals 960 and months 2 and 3 total 0.
C2_BonusGate ==
    /\ \A i \in Rows :
        LET r == rows[i]
            paid == /\ params.payout_policy
                         \in {"Bonus only (no recurring)", "Bonus + Recurring"}
                    /\ params.use_new_sale_bonus
                    /\ params.payout_duration > 0
                    /\ i <= params.payout_duration
            raw == RInt(params.new_sale_payout * ExpectedNew(i))
        IN  /\ paid /\ params.payout_type = "Commissionable (x%)"
                => r.NewSaleIncome = RMul(raw, params.commission_rate)
            /\ paid /\ params.payout_type # "Commissionable (x%)"
                => r.NewSaleIncome = raw
            /\ ~paid => r.NewSaleIncome = Zero
            /\ i > params.payout_duration => r.NewSaleIncome = Zero
    /\ params = BonusScenario
        => \A i \in Rows : rows[i].Total = IF i = 1 THEN RInt(960) ELSE Zero

\* The bonus scenario has run its three months: 960, then 0 with cohorts of
\* every age present.
C2_Witness ==
    /\ params = BonusScenario
    /\ pc = "returned"
    /\ Len(rows) = 3
    /\ rows[1].NewSaleIncome = RInt(960)
    /\ rows[3].NewSaleIncome = Zero
    /\ rows[3].NewClients = 12

\* C3: in Fixed mode Net Activations is max(new clients - cancellations, 0),
\* never negative; in Churn mode it is the new clients unchanged; after
\* every month the cumulative signed count is the sum of the net activations
\* so far, and it never decreases from one month to the next.
C3_Conservation ==
    /\ \A i \in Rows :
        LET r == rows[i]
        IN  /\ params.cancellations_mode = "Fixed"
                => /\ r.NetActivations = Max0(r.NewClients - params.cancellations)
                   /\ r.NetActivations >= 0
            /\ params.cancellations_mode = "Churn"
                => r.NetActivations = r.NewClients
            /\ r.SignedCum = NetSum(i)
            /\ i > 1 => r.SignedCum >= rows[i - 1].SignedCum
    /\ signed_cum = NetSum(Len(rows))

\* A finished Fixed run in which the cancellations exceed one month's new
\* clients (a cohort of 0, not below) and another month adds to the count.
C3_Witness ==
    /\ pc = "returned"
    /\ params.cancellations_mode = "Fixed"
    /\ \E i \in Rows : /\ rows[i].NewClients < params.cancellations
                       /\ rows[i].NetActivations = 0
    /\ \E i \in Rows : rows[i].NetActivations > 0
    /\ signed_cum > 0

\* C4: New Clients is the override count in the override month (when
\* override_month > 0) and the default count in every other month; the
\* cohort of a month has that month's size only; with a flat price, no free
\* months, no lifetime limit and Fixed mode every cohort adds its size x
\* price to the gross payments from its birth month on. In the override
\* scenario New Clients is 50 in month 3 and 10 elsewhere and the gross is
\* 1000 a month for each earlier cohort plus 5000 from month 3 on.
C4_Override ==
    /\ \A i \in Rows :
        /\ rows[i].NewClients = ExpectedNew(i)
        /\ params.override_new_clients # params.default_new_clients
            => (rows[i].NewClients = params.override_new_clients
                    <=> (params.override_month > 0 /\ i = params.override_month))
        /\ params.cancellations_mode = "Fixed"
            => cohorts[i].size = Max0(ExpectedNew(i) - params.cancellations)
        /\ params.cancellations_mode = "Churn"
            => cohorts[i].size = ExpectedNew(i)
        /\ ( /\ params.payout_policy # "Bonus only (no recurring)"
             /\ params.contract_type = "Flat Monthly"
             /\ params.free_months = 0
             /\ params.lifetime_months = 0
             /\ params.cancellations_mode = "Fixed" )
            => rows[i].Gross = RInt(params.flat_amount * NetSum(i))
    /\ params = OverrideScenario
        => \A i \in Rows :
            /\ rows[i].NewClients = IF i = 3 THEN 50 ELSE 10
            /\ rows[i].Gross = IF i < 3 THEN RInt(1000 * i)
                               ELSE RInt(1000 * (i - 1) + 5000)

\* The override scenario has run its twelve months.
C4_Witness ==
    /\ params = OverrideScenario
    /\ pc = "returned"
    /\ Len(rows) = 12
    /\ rows[3].NewClients = 50
    /\ rows[2].Gross = RInt(2000)
    /\ rows[3].Gross = RInt(7000)
    /\ rows[12].Gross = RInt(16000)

\* C9: after month m there are m rows with Month = 1..m and m cohorts with
\* birth = 1..m (one a month, also of size 0); a later month changes no
\* earlier row and no existing cohort, whose stored size stays the net
\* activations of its month; at the end there is one row per month of the
\* horizon.
C9_AppendOnly ==
    /\ [](/\ Len(rows) = m
          /\ Len(cohorts) = m
          /\ \A i \in Rows :
                /\ rows[i].Month = i
                /\ cohorts[i].birth = i
                /\ cohorts[i].size = rows[i].NetActivations
          /\ pc # "loop" => Len(rows) = params.months)
    /\ [][/\ Len(rows') >= Len(rows)
          /\ \A i \in Rows : rows'[i] = rows[i] /\ cohorts'[i] = cohorts[i]]_vars

\* A finished Churn run with attrition, at least three months, and a cohort
\* of size 0 among cohorts that kept their size.
C9_Witness ==
    /\ pc = "returned"
    /\ m >= 3
    /\ params.cancellations_mode = "Churn"
    /\ params.churn_percent > 0
    /\ \E i \in Rows : cohorts[i].size = 0
    /\ \E i \in Rows : cohorts[i].size > 0 /\ rows[m].Paying # RInt(signed_cum)

Scan == 1..Len(scan)

\* The churn rate after the clamp, as hundredths.
ClampedPercent ==
    IF params.churn_percent > 99 THEN 99
    ELSE IF params.churn_percent < 0 THEN 0 ELSE params.churn_percent

\* The k-fold product of a rational.
RECURSIVE Power(_, _)
Power(x, k) == IF k = 0 THEN One ELSE RMul(Power(x, k - 1), x)

\* The age the churn clock shows for a cohort of the given age.
ExpectedChurnAge(age) ==
    IF params.lifetime_mode = "From activation" THEN age
    ELSE Max0(age - params.free_months)

\* C5: once the lifetime gate rejects a cohort in some month it rejects it
\* in every later month, and the cohort adds nothing to the paying clients
\* or the gross payments again; with a lifetime limit <= 0 no cohort is ever
\* rejected.
C5_LifetimeExclusive ==
    /\ [](params.lifetime_months <= 0
            => \A b \in Scan : scan[b].ended # "lifetime")
    /\ [][\A b \in Scan :
            scan[b].ended = "lifetime"
                => /\ scan'[b].ended = "lifetime"
                   /\ scan'[b].active_clients = Zero
                   /\ scan'[b].gross = Zero]_vars

\* A cohort that paid earlier in the run is rejected for the second month
\* running, in "After free months" mode with free months.
C5_Witness ==
    /\ params.lifetime_mode = "After free months"
    /\ params.free_months > 0
    /\ params.lifetime_months > 0
    /\ \E b \in Scan :
        /\ scan[b].ended = "lifetime"
        /\ scan[b].size > 0
        /\ scan[b].age > params.free_months + params.lifetime_months
        /\ rows[b + params.free_months].Paying # Zero

\* C6: a cohort younger than free_months has price 0, whatever the contract
\* type and the amounts, and adds nothing to Paying SMEs or to the gross
\* payments of the month; in the first free_months months of a run the
\* gross payments are 0 in every row.
C6_FreeMonthsZero ==
    /\ \A b \in Scan :
        scan[b].age < params.free_months
            => /\ scan[b].ended \in {"lifetime", "price"}
               /\ scan[b].per_client_gross = 0
               /\ scan[b].active_clients = Zero
               /\ scan[b].gross = Zero
    /\ \A i \in Rows :
        i <= params.free_months
            => rows[i].Gross = Zero /\ rows[i].Paying = Zero
    /\ Len(scan) > 0
        => /\ rows[m].Paying
                = RSum([b \in Scan |->
                         IF scan[b].age < params.free_months
                         THEN Zero ELSE scan[b].active_clients])
           /\ rows[m].Gross
                = RSum([b \in Scan |->
                         IF scan[b].age < params.free_months
                         THEN Zero ELSE scan[b].gross])

\* A month in which a non-empty cohort is still free, inside its lifetime,
\* while an older one pays.
C6_Witness ==
    /\ params.free_months > 0
    /\ \E b \in Scan : /\ scan[b].age < params.free_months
                       /\ scan[b].size > 0
                       /\ scan[b].ended = "price"
    /\ \E b \in Scan : scan[b].ended = "paid" /\ scan[b].gross # Zero
    /\ rows[1].Gross = Zero

\* C7: with the churn rate clamped into [0, 0.99] the survival factor of a
\* cohort in Churn mode is (1 - rate)^age, 1 at churn age 0 and in (0, 1] at
\* every age, and strictly smaller for an older cohort when the rate is
\* > 0; the churn age is the age from activation in "From activation" mode
\* and the age from first payment otherwise; a paying cohort's active count
\* is size x factor, never grows from one month to the next and is never 0
\* for a non-empty cohort.
C7_ChurnSurvival ==
    /\ [](\A b \in Scan :
            scan[b].ended \in {"price", "paid"}
                => LET ca == ExpectedChurnAge(scan[b].age)
                       sf == scan[b].sf
                   IN  /\ params.cancellations_mode = "Churn"
                            => sf = Power(Rat(100 - ClampedPercent, 100), ca)
                       /\ params.cancellations_mode # "Churn" => sf = One
                       /\ ca = 0 => sf = One
                       /\ RLt(Zero, sf) /\ RLe(sf, One)
                       /\ \A c \in Scan :
                            ( /\ scan[c].ended \in {"price", "paid"}
                              /\ params.cancellations_mode = "Churn"
                              /\ params.churn_percent > 0
                              /\ ExpectedChurnAge(scan[c].age) > ca )
                                => RLt(scan[c].sf, sf)
                       /\ scan[b].ended = "paid"
                            => /\ scan[b].active_clients
                                    = RMul(RInt(scan[b].size), sf)
                               /\ scan[b].size > 0
                                    => RLt(Zero, scan[b].active_clients))
    /\ [][\A b \in Scan :
            scan[b].ended = "paid" /\ scan'[b].ended = "paid"
                => /\ RLe(scan'[b].active_clients, scan[b].active_clients)
                   /\ RLe(scan'[b].sf, scan[b].sf)]_vars

\* A churn percentage of 100: a non-empty cohort pays at churn age 2 or more
\* with a positive active count below its size.
C7_Witness ==
    /\ params.cancellations_mode = "Churn"
    /\ params.churn_percent = 100
    /\ \E b \in Scan :
        /\ scan[b].ended = "paid"
        /\ scan[b].size > 0
        /\ ExpectedChurnAge(scan[b].age) >= 2
        /\ RLt(scan[b].active_clients, RInt(scan[b].size))
        /\ RLt(Zero, scan[b].active_clients)

\* The sum of one column over the rows of months lo..hi.
RECURSIVE MonthsSum(_, _, _)
MonthsSum(lo, hi, col) ==
    IF hi < lo THEN Zero ELSE RAdd(MonthsSum(lo, hi - 1, col), rows[hi][col])

LastYear == (params.months - 1) \div 12 + 1

Min(x, y) == IF x < y THEN x ELSE y

\* C8: yearly_totals puts month i in year (i - 1) div 12 + 1; the years come
\* out ascending, one entry per year that has a month, and each of the four
\* yearly values is the sum of its metric over the months of that year, a
\* partial last year over the months it has.
C8_YearlySum ==
    pc = "aggregated"
        => /\ Len(yearly) = LastYear
           /\ \A k \in 1..Len(yearly) :
                LET lo == 12 * (k - 1) + 1
                    hi == Min(12 * k, params.months)
                IN  /\ yearly[k].Year = k
                    /\ yearly[k].Gross = MonthsSum(lo, hi, "Gross")
                    /\ yearly[k].NewSaleIncome = MonthsSum(lo, hi, "NewSaleIncome")
                    /\ yearly[k].Commission = MonthsSum(lo, hi, "Commission")
                    /\ yearly[k].TotalYearly = MonthsSum(lo, hi, "Total")

\* Twenty-five months: two full years and a last year of one month, with
\* the bonus paid into the second year.
C8_Witness ==
    /\ pc = "aggregated"
    /\ params.months = 25
    /\ Len(yearly) = 3
    /\ yearly[2].NewSaleIncome # Zero
    /\ yearly[3].Gross = rows[25].Gross
    /\ yearly[3].Gross # Zero
    /\ yearly[1].TotalYearly # yearly[2].TotalYearly

PricePositive ==
    IF params.contract_type = "Intro + Recurring"
    THEN params.recurring_amount > 0
            /\ (params.intro_months > 0 => params.intro_amount > 0)
    ELSE params.flat_amount > 0

\* Whether a cohort of the given age is inside its paid window.
InWindow(age) ==
    IF params.lifetime_mode = "From activation"
    THEN params.free_months <= age /\ age <= params.lifetime_months - 1
    ELSE params.free_months <= age
            /\ age <= params.free_months + params.lifetime_months - 1

RECURSIVE WindowSize(_, _)
WindowSize(i, b) ==
    IF b = 0 THEN 0
    ELSE WindowSize(i, b - 1) + IF InWindow(i - b) THEN cohorts[b].size ELSE 0

\* C10: under a lifetime limit L > 0 and a positive price a cohort pays, in
\* "After free months" mode, at exactly the ages free_months ..
\* free_months + L - 1, and in "From activation" mode at exactly the ages
\* free_months .. L - 1 (never when L <= free_months); outside the window it
\* adds nothing. In Fixed mode the paying clients of a month are the cohorts
\* inside their windows.
C10_PaidWindow ==
    (params.lifetime_months > 0 /\ PricePositive)
        => /\ \A b \in Scan :
                /\ scan[b].ended = "paid" <=> InWindow(scan[b].age)
                /\ ~InWindow(scan[b].age)
                    => scan[b].active_clients = Zero /\ scan[b].gross = Zero
                /\ ( /\ params.lifetime_mode = "From activation"
                     /\ params.lifetime_months <= params.free_months )
                    => scan[b].ended # "paid"
           /\ ( /\ params.cancellations_mode = "Fixed"
                /\ params.payout_policy # "Bonus only (no recurring)" )
                => \A i \in Rows : rows[i].Paying = RInt(WindowSize(i, i))

\* "After free months" with free months and L = 2: one cohort is still
\* free, one pays in the last month of its window, and the oldest, one month
\* older, is past it.
C10_Witness ==
    /\ params.lifetime_mode = "After free months"
    /\ params.free_months > 0
    /\ params.lifetime_months = 2
    /\ PricePositive
    /\ \E b \in Scan : scan[b].ended = "price" /\ scan[b].age < params.free_months
    /\ \E b \in Scan :
        /\ scan[b].ended = "paid"
        /\ scan[b].age = params.free_months + 1
        /\ b > 1
        /\ scan[b - 1].ended = "lifetime"

====
